---- MODULE Spec2Model ----
(***************************************************************************)
(* Incremental identity clustering engine of the photo tool                *)
(* (Scripts/face_recognizer_insightface.py, class InsightFaceRecognizer).  *)
(*                                                                         *)
(* The store is the two SQLite tables `faces` and `persons`.  Embeddings   *)
(* are modelled as small integer vectors; cosine similarity is compared    *)
(* exactly (no square roots: sign(d)*d^2/n is monotone in d/sqrt(n)).      *)
(***************************************************************************)
EXTENDS Integers, Sequences, FiniteSets, TLC

VARIABLES faces, persons, nextPersonId, loop, last, workers

vars == <<faces, persons, nextPersonId, loop, last, workers>>

(***************************************************************************)
(* Bounds of the model                                                     *)
(***************************************************************************)
MaxFaces == 3
MaxPersonId == 3
MaxIterations == 2
MaxWorkers == 2
MaxServerFaces == 2
MaxBootstrapFaces == 4
MaxOrderPersonId == 4
MaxLoopIterations == 4
OrderMinSamples == 4

(***************************************************************************)
(* Input domains                                                           *)
(***************************************************************************)
\* faces.person_id IS NULL; AUTOINCREMENT ids start at 1
NULL == 0

\* embeddings the Detector can deliver (2 dimensions stand for 512)
Embeddings == {<<1, 0>>, <<3, 4>>, <<0, 1>>}

\* --similarity values, as fractions <<numerator, denominator>>
Thresholds == {<<0 - 1, 2>>, <<1, 2>>, <<4, 5>>}

\* --eps values of the batch clusterer, as fractions
ClusterEps == {<<1, 20>>, <<19, 50>>}

\* --min-samples / --min-samples-new values
MinSamplesValues == {1, 2}

\* names given to --label
LabelNames == {"Person 2"}

(***************************************************************************)
(* Cosine similarity (sklearn.metrics.pairwise.cosine_similarity)          *)
(* A similarity is kept as <<d, n>> and stands for d / sqrt(n), n > 0.     *)
(***************************************************************************)
Dot(a, b) == a[1] * b[1] + a[2] * b[2]

SSq(d) == IF d >= 0 THEN d * d ELSE 0 - (d * d)

\* s1 > s2 for similarities <<d, n>>
SimGT(s1, s2) == SSq(s1[1]) * s2[2] > SSq(s2[1]) * s1[2]

\* the fraction <<p, q>> as a similarity
Frac(t) == <<t[1], t[2] * t[2]>>

\* the literal 0 that best_similarity starts from
SimZero == <<0, 1>>

\* cosine_similarity([a], [b])[0][0]; a zero vector is normalised with norm 1
CosSim(a, b) ==
    LET n == Dot(a, a) * Dot(b, b)
    IN  IF n = 0 THEN SimZero ELSE <<Dot(a, b), n>>

(***************************************************************************)
(* Store queries                                                           *)
(***************************************************************************)
FacesOf(fs, p) == {i \in 1..Len(fs) : fs[i].person = p}

\* f"Person {n}"
PersonName(n) == "Person " \o ToString(n)

(***************************************************************************)
(* sklearn.cluster.DBSCAN(eps, min_samples, metric='cosine').fit_predict   *)
(* pts is the sequence of embeddings; the result is the sequence of        *)
(* labels, -1 for noise, clusters numbered from 0 in order of discovery.   *)
(***************************************************************************)
NOISE == 0 - 1

\* cosine distance 1 - similarity <= eps, i.e. similarity >= 1 - eps
WithinEps(a, b, eps) == ~SimGT(Frac(<<eps[2] - eps[1], eps[2]>>), CosSim(a, b))

\* the eps-neighbourhood of point i (it holds i itself)
Neighbors(pts, i, eps) == {j \in 1..Len(pts) : WithinEps(pts[i], pts[j], eps)}

CorePoints_SelfNotCounted(pts, eps, minS) ==
    {i \in 1..Len(pts) : Cardinality(Neighbors(pts, i, eps) \ {i}) >= minS}

CorePoints(pts, eps, minS) ==
    {i \in 1..Len(pts) : Cardinality(Neighbors(pts, i, eps)) >= minS}

\* everything the depth-first expansion from the seed set S reaches: only
\* core points push their neighbours
RECURSIVE Expand(_, _, _, _)
Expand(pts, eps, core, S) ==
    LET N == S \cup UNION {Neighbors(pts, i, eps) : i \in S \cap core}
    IN  IF N = S THEN S ELSE Expand(pts, eps, core, N)

\* the scan `for i in range(n)`: an unlabelled core point seeds the next
\* cluster, which takes every reached point that has no label yet
RECURSIVE LabelFrom(_, _, _, _, _, _)
LabelFrom(pts, eps, core, i, labels, num) ==
    IF i > Len(pts) THEN labels
    ELSE IF labels[i] # NOISE \/ i \notin core
         THEN LabelFrom(pts, eps, core, i + 1, labels, num)
         ELSE LET C == {j \in Expand(pts, eps, core, {i}) : labels[j] = NOISE}
              IN  LabelFrom(pts, eps, core, i + 1,
                            [j \in 1..Len(pts) |-> IF j \in C THEN num ELSE labels[j]],
                            num + 1)

DBSCAN(pts, eps, minS) ==
    LabelFrom(pts, eps, CorePoints(pts, eps, minS), 1,
              [j \in 1..Len(pts) |-> NOISE], 0)

\* set(cluster_labels) without -1, iterated in ascending order
RECURSIVE SetToSeq(_)
SetToSeq(S) ==
    IF S = {} THEN <<>>
    ELSE LET m == CHOOSE x \in S : \A y \in S : x <= y
         IN  <<m>> \o SetToSeq(S \ {m})

UniqueClusters(labels) == SetToSeq({labels[j] : j \in DOMAIN labels} \ {NOISE})

(***************************************************************************)
(* cluster_new_faces: one pass of Reconciler (phase 1) and Miner (phase 2) *)
(***************************************************************************)
\* SELECT id FROM faces WHERE embedding IS NOT NULL AND person_id IS NULL,
\* in rowid order
RECURSIVE NewFacesFrom(_, _)
NewFacesFrom(fs, i) ==
    IF i > Len(fs) THEN <<>>
    ELSE (IF fs[i].person = NULL THEN <<i>> ELSE <<>>) \o NewFacesFrom(fs, i + 1)

NewFaces_AllFaces(fs) == [i \in 1..Len(fs) |-> i]

NewFaces(fs) == NewFacesFrom(fs, 1)

\* persons that the join persons JOIN faces returns at least one row for
JoinedPersons(fs, ps) == {p \in DOMAIN ps : FacesOf(fs, p) # {}}

\* The join has no ORDER BY: its rows come grouped by ascending person id
\* (persons is the outer table) or in face rowid order (faces is the outer
\* table).  person_centroids keeps the order of first appearance.
RECURSIVE ByFirstFace(_, _, _, _)
ByFirstFace(fs, ps, i, seen) ==
    IF i > Len(fs) THEN <<>>
    ELSE IF fs[i].person \in DOMAIN ps /\ fs[i].person \notin seen
         THEN <<fs[i].person>> \o ByFirstFace(fs, ps, i + 1, seen \cup {fs[i].person})
         ELSE ByFirstFace(fs, ps, i + 1, seen)

PersonOrders(fs, ps) ==
    {SetToSeq(JoinedPersons(fs, ps)), ByFirstFace(fs, ps, 1, {})}

\* a centroid <<x, y, d>> stands for the vector (x/d, y/d)
RECURSIVE SumEmb(_, _)
SumEmb(fs, S) ==
    IF S = {} THEN <<0, 0>>
    ELSE LET i == CHOOSE x \in S : TRUE
             r == SumEmb(fs, S \ {i})
         IN  <<fs[i].emb[1] + r[1], fs[i].emb[2] + r[2]>>

\* np.mean(person_centroids[person_id], axis=0)
MeanCentroid(fs, p) ==
    LET S == FacesOf(fs, p)
        t == SumEmb(fs, S)
    IN  <<t[1], t[2], Cardinality(S)>>

\* person_centroids after the averaging loop, in key order
RECURSIVE CentroidsFrom(_, _, _)
CentroidsFrom(fs, ord, k) ==
    IF k > Len(ord) THEN <<>>
    ELSE <<MeanCentroid(fs, ord[k])>> \o CentroidsFrom(fs, ord, k + 1)

\* (old_centroid + face_embedding) / 2
UpdateCentroid(c, e) == <<c[1] + c[3] * e[1], c[2] + c[3] * e[2], 2 * c[3]>>

\* cosine similarity does not depend on the positive scale 1/d
CentroidSim(e, c) == CosSim(e, <<c[1], c[2]>>)

\* similarity > best_similarity and similarity > similarity_threshold
Better_AtLeast(s, best, thr) == SimGT(s, best) /\ ~SimGT(Frac(thr), s)

Better(s, best, thr) == SimGT(s, best) /\ SimGT(s, Frac(thr))

\* the inner loop over person_centroids.items(): ord[k] is the k-th key and
\* cents[k] its centroid; best is <<best_person_id, best_similarity>>
RECURSIVE BestPerson(_, _, _, _, _, _)
BestPerson(e, cents, ord, k, thr, best) ==
    IF k > Len(ord) THEN best
    ELSE LET s == CentroidSim(e, cents[k])
         IN  IF Better(s, best[2], thr)
             THEN BestPerson(e, cents, ord, k + 1, thr, <<ord[k], s>>)
             ELSE BestPerson(e, cents, ord, k + 1, thr, best)

\* a face that found a person: the UPDATE, assigned_count += 1 and the new
\* running centroid of person ord[pos]
AssignStep_NoCount(acc, f, e, ord, pos, step) ==
    [person |-> [acc.person EXCEPT ![f] = ord[pos]],
     cents |-> [acc.cents EXCEPT ![pos] = <<@[1] + @[3] * e[1], @[2] + @[3] * e[2], 2 * @[3]>>],
     assigned |-> acc.assigned,
     unmatched |-> acc.unmatched,
     steps |-> Append(acc.steps, step)]

AssignStep(acc, f, e, ord, pos, step) ==
    [person |-> [acc.person EXCEPT ![f] = ord[pos]],
     cents |-> [acc.cents EXCEPT ![pos] = UpdateCentroid(@, e)],
     assigned |-> acc.assigned + 1,
     unmatched |-> acc.unmatched,
     steps |-> Append(acc.steps, step)]

\* Phase 1, the loop over new_faces.  acc carries the person_id column, the
\* running centroids, assigned_count, unmatched_faces and, per face, what
\* the centroids were when it was compared and whom it went to.
RECURSIVE Phase1(_, _, _, _, _, _)
Phase1(fs, nf, k, ord, thr, acc) ==
    IF k > Len(nf) THEN acc
    ELSE LET f == nf[k]
             b == BestPerson(fs[f].emb, acc.cents, ord, 1, thr, <<NULL, SimZero>>)[1]
             pos == CHOOSE j \in 1..Len(ord) : ord[j] = b
             step == [face |-> f, cents |-> acc.cents, best |-> b]
         IN  IF b # NULL
             THEN Phase1(fs, nf, k + 1, ord, thr,
                         AssignStep(acc, f, fs[f].emb, ord, pos, step))
             ELSE Phase1(fs, nf, k + 1, ord, thr,
                    [acc EXCEPT !.unmatched = Append(@, f),
                                !.steps = Append(@, step)])

\* eps of the Miner's DBSCAN
MinerEps_Tight == <<1, 20>>

MinerEps == <<2, 5>>

\* len(unmatched_faces) >= min_samples_new
MinerRuns(um, msn) == Len(um) >= msn

\* Phase 2: labels of the unmatched faces, all noise when the Miner is gated
MinerLabels_MinOne(fs, um, msn) ==
    DBSCAN([j \in 1..Len(um) |-> fs[um[j]].emb], MinerEps, 1)

MinerLabels(fs, um, msn) ==
    IF MinerRuns(um, msn)
    THEN DBSCAN([j \in 1..Len(um) |-> fs[um[j]].emb], MinerEps, msn)
    ELSE [j \in 1..Len(um) |-> NOISE]

\* Phase 2 applied to the outcome p1 of phase 1 and the labels of its
\* unmatched faces.  Cluster label L gets the person id lastrowid = npid + L
\* and the name Person {len(person_centroids) + L + 1}.
Phase2(fs, ps, npid, thr, msn, ord, p1, labels) ==
    LET um == p1.unmatched
        n == Len(UniqueClusters(labels))
        newIds == npid..(npid + n - 1)
        lab == [i \in 1..Len(fs) |->
                  IF \E j \in 1..Len(um) : um[j] = i
                  THEN labels[CHOOSE j \in 1..Len(um) : um[j] = i]
                  ELSE NOISE]
    IN  [ran |-> "ran",
         faces |-> [i \in 1..Len(fs) |->
                      [fs[i] EXCEPT !.person =
                          IF lab[i] # NOISE THEN npid + lab[i] ELSE p1.person[i]]],
         persons |-> [p \in DOMAIN ps \cup newIds |->
                        IF p \in newIds
                        THEN [name |-> PersonName(Len(ord) + (p - npid) + 1),
                              confirmed |-> FALSE]
                        ELSE ps[p]],
         nextPersonId |-> npid + n,
         assigned |-> p1.assigned, newPeople |-> n, unmatched |-> um,
         steps |-> p1.steps, thr |-> thr, msn |-> msn, ord |-> ord]

\* The whole pass.  ran is "nofaces" / "nopersons" for the two early
\* returns (which return None) and "ran" otherwise.
ClusterNewFaces(fs, ps, npid, thr, msn, ord) ==
    LET nf == NewFaces(fs)
        none == [ran |-> "nofaces", faces |-> fs, persons |-> ps, nextPersonId |-> npid,
                 assigned |-> 0, newPeople |-> 0, unmatched |-> <<>>,
                 steps |-> <<>>, thr |-> thr, msn |-> msn, ord |-> <<>>]
    IN  IF nf = <<>> THEN none
        ELSE IF JoinedPersons(fs, ps) = {} THEN [none EXCEPT !.ran = "nopersons"]
        ELSE LET p1 == Phase1(fs, nf, 1, ord, thr,
                          [person |-> [i \in 1..Len(fs) |-> fs[i].person],
                           cents |-> CentroidsFrom(fs, ord, 1),
                           assigned |-> 0, unmatched |-> <<>>, steps |-> <<>>])
                 labels == MinerLabels(fs, p1.unmatched, msn)
             IN  Phase2(fs, ps, npid, thr, msn, ord, p1, labels)

(***************************************************************************)
(* Initial state: empty tables, no operation run yet.  loop holds the      *)
(* locals of the latest cluster_new_faces_loop call; they are kept until   *)
(* the next operation starts.                                              *)
(***************************************************************************)
IdleLoop ==
    [pc |-> "idle", thr |-> <<0, 1>>, msn |-> 0, maxIter |-> 0, iteration |-> 0,
     total_assigned |-> 0, total_new |-> 0, progress |-> FALSE,
     rerun |-> FALSE, prevCapped |-> FALSE, inserted |-> FALSE]

Init ==
    /\ faces = <<>>
    /\ persons = <<>>
    /\ nextPersonId = 1
    /\ loop = IdleLoop
    /\ last = [op |-> "none"]
    /\ workers = <<>>

(***************************************************************************)
(* extract_face_embeddings: the Detector inserts a Face with person_id     *)
(* NULL.  It may run while the convergence loop is between two passes.     *)
(***************************************************************************)
\* x, y, width, height and confidence of a detection
Detection == <<10, 20, 64, 64, 1>>

\* INSERT INTO faces (..., embedding, ...): person_id NULL, ignored DEFAULT 0
NewFace(e) == [emb |-> e, det |-> Detection, person |-> NULL, ignored |-> FALSE]

InsertFace(e) ==
    /\ Len(faces) < MaxFaces
    /\ faces' = Append(faces, NewFace(e))
    /\ loop' = IF loop.pc = "running" THEN [loop EXCEPT !.inserted = TRUE] ELSE IdleLoop
    /\ last' = [op |-> "insert"]
    /\ UNCHANGED <<persons, nextPersonId, workers>>

(***************************************************************************)
(* cluster_faces: the destructive batch clusterer                          *)
(***************************************************************************)
\* len(face_data) < min_samples
InsufficientData_Never(fs, minS) == FALSE

InsufficientData(fs, minS) == Len(fs) < minS

\* The reset (UPDATE faces SET person_id = NULL, DELETE FROM persons) and the
\* new rows: cluster label L gets the person id npid + L, named Person {L+1}.
ClusterFacesResult_KeepPersons(fs, ps, npid, eps, minS) ==
    LET labels == DBSCAN([i \in 1..Len(fs) |-> fs[i].emb], eps, minS)
        n == Len(UniqueClusters(labels))
        newIds == npid..(npid + n - 1)
    IN  [labels |-> labels,
         faces |-> [i \in 1..Len(fs) |->
                      [fs[i] EXCEPT !.person =
                          IF labels[i] # NOISE THEN npid + labels[i] ELSE NULL]],
         persons |-> [p \in DOMAIN ps \cup newIds |->
                        IF p \in newIds
                        THEN [name |-> PersonName((p - npid) + 1), confirmed |-> FALSE]
                        ELSE ps[p]],
         nextPersonId |-> npid + n]

ClusterFacesResult(fs, ps, npid, eps, minS) ==
    LET labels == DBSCAN([i \in 1..Len(fs) |-> fs[i].emb], eps, minS)
        n == Len(UniqueClusters(labels))
        newIds == npid..(npid + n - 1)
    IN  [labels |-> labels,
         faces |-> [i \in 1..Len(fs) |->
                      [fs[i] EXCEPT !.person =
                          IF labels[i] # NOISE THEN npid + labels[i] ELSE NULL]],
         persons |-> [p \in newIds |->
                        [name |-> PersonName((p - npid) + 1), confirmed |-> FALSE]],
         nextPersonId |-> npid + n]

ClusterFaces(eps, minS) ==
    /\ loop.pc # "running"
    /\ IF InsufficientData(faces, minS)
       THEN /\ UNCHANGED <<faces, persons, nextPersonId>>
            /\ last' = [op |-> "cluster", ran |-> FALSE, minS |-> minS,
                        labels |-> <<>>]
       ELSE \E R \in {ClusterFacesResult(faces, persons, nextPersonId, eps, minS)} :
                /\ R.nextPersonId - 1 <= MaxPersonId
                /\ faces' = R.faces
                /\ persons' = R.persons
                /\ nextPersonId' = R.nextPersonId
                /\ last' = [op |-> "cluster", ran |-> TRUE, minS |-> minS,
                            labels |-> R.labels]
    /\ loop' = IdleLoop
    /\ UNCHANGED workers

(***************************************************************************)
(* --cluster-new: a single pass                                            *)
(***************************************************************************)
PassRecord(R, inLoop) ==
    [op |-> "pass", inLoop |-> inLoop, ran |-> R.ran, thr |-> R.thr, msn |-> R.msn,
     ord |-> R.ord,
     assigned |-> R.assigned, newPeople |-> R.newPeople,
     unmatched |-> R.unmatched, steps |-> R.steps]

ClusterNew(thr, msn) ==
    /\ loop.pc # "running"
    /\ \E ord \in PersonOrders(faces, persons) :
       \E R \in {ClusterNewFaces(faces, persons, nextPersonId, thr, msn, ord)} :
             /\ R.nextPersonId - 1 <= MaxPersonId
             /\ faces' = R.faces
             /\ persons' = R.persons
             /\ nextPersonId' = R.nextPersonId
             /\ last' = PassRecord(R, FALSE)
    /\ loop' = IdleLoop
    /\ UNCHANGED workers

(***************************************************************************)
(* cluster_new_faces_loop.  One step is one iteration of the while loop;   *)
(* every pass commits before it returns.  pc is "returned" after the       *)
(* return statement and "raised" when unpacking None raised TypeError.     *)
(***************************************************************************)
\* assigned, new_people = self.cluster_new_faces(...) and the rest of the body
LoopAfterPass_AssignedOnly(l, R) ==
    IF R.ran # "ran"
    THEN [l EXCEPT !.pc = "raised", !.iteration = @ + 1, !.progress = FALSE]
    ELSE [l EXCEPT !.iteration = @ + 1,
                   !.total_assigned = @ + R.assigned,
                   !.total_new = @ + R.newPeople,
                   !.progress = ~(R.assigned = 0 /\ R.newPeople = 0),
                   !.pc = IF R.assigned # 0 /\ l.iteration + 1 < l.maxIter
                          THEN "running" ELSE "returned"]

LoopAfterPass_NoBreak(l, R) ==
    IF R.ran # "ran"
    THEN [l EXCEPT !.pc = "raised", !.iteration = @ + 1, !.progress = FALSE]
    ELSE LET prog == ~(R.assigned = 0 /\ R.newPeople = 0)
         IN  [l EXCEPT !.iteration = @ + 1,
                       !.total_assigned = @ + R.assigned,
                       !.total_new = @ + R.newPeople,
                       !.progress = prog,
                       !.pc = IF l.iteration + 1 < l.maxIter
                              THEN "running" ELSE "returned"]

LoopAfterPass(l, R) ==
    IF R.ran # "ran"
    THEN [l EXCEPT !.pc = "raised", !.iteration = @ + 1, !.progress = FALSE]
    ELSE LET prog == ~(R.assigned = 0 /\ R.newPeople = 0)
         IN  [l EXCEPT !.iteration = @ + 1,
                       !.total_assigned = @ + R.assigned,
                       !.total_new = @ + R.newPeople,
                       !.progress = prog,
                       !.pc = IF prog /\ l.iteration + 1 < l.maxIter
                              THEN "running" ELSE "returned"]

LoopFinished == loop.pc \in {"returned", "raised"}

\* the call, up to the end of the first iteration
LoopCall(thr, msn, maxIter) ==
    /\ loop.pc # "running"
    /\ \E ord \in PersonOrders(faces, persons) :
       \E R \in {ClusterNewFaces(faces, persons, nextPersonId, thr, msn, ord)} :
         LET again == /\ LoopFinished
                      /\ loop.thr = thr /\ loop.msn = msn /\ loop.maxIter = maxIter
             l0 == [pc |-> "running", thr |-> thr, msn |-> msn, maxIter |-> maxIter,
                    iteration |-> 0, total_assigned |-> 0, total_new |-> 0,
                    progress |-> FALSE, rerun |-> again,
                    prevCapped |-> again /\ loop.pc = "returned" /\ loop.progress,
                    inserted |-> FALSE]
         IN  /\ R.nextPersonId - 1 <= MaxPersonId
             /\ faces' = R.faces
             /\ persons' = R.persons
             /\ nextPersonId' = R.nextPersonId
             /\ loop' = LoopAfterPass(l0, R)
             /\ last' = PassRecord(R, TRUE)

ClusterNewLoop(thr, msn, maxIter) ==
    /\ LoopCall(thr, msn, maxIter)
    /\ UNCHANGED workers

\* a further iteration: while iteration < max_iterations
LoopPass ==
    /\ loop.pc = "running"
    /\ loop.iteration < loop.maxIter
    /\ \E ord \in PersonOrders(faces, persons) :
       \E R \in {ClusterNewFaces(faces, persons, nextPersonId, loop.thr, loop.msn, ord)} :
             /\ R.nextPersonId - 1 <= MaxPersonId
             /\ faces' = R.faces
             /\ persons' = R.persons
             /\ nextPersonId' = R.nextPersonId
             /\ loop' = LoopAfterPass(loop, R)
             /\ last' = PassRecord(R, TRUE)
             /\ UNCHANGED workers

(***************************************************************************)
(* label_person                                                            *)
(***************************************************************************)
\* SELECT id FROM persons WHERE name = ? AND id != ?
SameName(ps, p, name) == {q \in DOMAIN ps : q # p /\ ps[q].name = name}

\* UPDATE faces SET person_id = q WHERE person_id = p
MergeFaces_Swapped(fs, p, q) ==
    [i \in 1..Len(fs) |-> IF fs[i].person = q THEN [fs[i] EXCEPT !.person = p] ELSE fs[i]]

MergeFaces(fs, p, q) ==
    [i \in 1..Len(fs) |-> IF fs[i].person = p THEN [fs[i] EXCEPT !.person = q] ELSE fs[i]]

\* SELECT id, name FROM persons WHERE id = ? found a row
PersonExists_Always(ps, p) == TRUE

PersonExists(ps, p) == p \in DOMAIN ps

\* UPDATE persons SET name = ?, confirmed = 1 WHERE id = ?
Renamed_NameOnly(ps, p, name) == [ps EXCEPT ![p].name = name]

Renamed(ps, p, name) == [ps EXCEPT ![p] = [name |-> name, confirmed |-> TRUE]]

LabelPerson(p, name) ==
    /\ loop.pc # "running"
    /\ IF ~PersonExists(persons, p)
       THEN /\ UNCHANGED <<faces, persons>>
            /\ last' = [op |-> "label", p |-> p, name |-> name,
                        branch |-> "notfound", q |-> NULL]
       ELSE IF SameName(persons, p, name) # {}
       THEN \E q \in SameName(persons, p, name) :
            /\ faces' = MergeFaces(faces, p, q)
            /\ persons' = [r \in DOMAIN persons \ {p} |-> persons[r]]
            /\ last' = [op |-> "label", p |-> p, name |-> name,
                        branch |-> "merge", q |-> q]
       ELSE /\ persons' = Renamed(persons, p, name)
            /\ UNCHANGED faces
            /\ last' = [op |-> "label", p |-> p, name |-> name,
                        branch |-> "rename", q |-> NULL]
    /\ loop' = IdleLoop
    /\ UNCHANGED <<nextPersonId, workers>>

(***************************************************************************)
(* delete_unconfirmed_people                                               *)
(***************************************************************************)
Unconfirmed_All(ps) == DOMAIN ps

\* SELECT id FROM persons WHERE confirmed = 0
Unconfirmed(ps) == {p \in DOMAIN ps : ~ps[p].confirmed}

\* faces_to_clear: faces joined to an unconfirmed person
FacesToClear_NoneFound(fs, ps) == {}

FacesToClear(fs, ps) == {i \in 1..Len(fs) : fs[i].person \in Unconfirmed(ps)}

\* UPDATE faces SET person_id = NULL WHERE person_id IN (...)
ClearedFaces_RowsDeleted(fs, S) == SelectSeq(fs, LAMBDA f : f.person \notin {fs[i].person : i \in S})

ClearedFaces(fs, S) ==
    [i \in 1..Len(fs) |-> IF i \in S THEN [fs[i] EXCEPT !.person = NULL] ELSE fs[i]]

DeleteUnconfirmed ==
    /\ loop.pc # "running"
    /\ IF Unconfirmed(persons) = {}
       THEN /\ UNCHANGED <<faces, persons>>
            /\ last' = [op |-> "deleteUnconfirmed", ran |-> FALSE,
                        deleted_count |-> 0, faces_to_clear |-> 0]
       ELSE /\ faces' = ClearedFaces(faces, FacesToClear(faces, persons))
            /\ persons' = [r \in DOMAIN persons \ Unconfirmed(persons) |-> persons[r]]
            /\ last' = [op |-> "deleteUnconfirmed", ran |-> TRUE,
                        deleted_count |-> Cardinality(Unconfirmed(persons)),
                        faces_to_clear |-> Cardinality(FacesToClear(faces, persons))]
    /\ loop' = IdleLoop
    /\ UNCHANGED <<nextPersonId, workers>>

(***************************************************************************)
(* Transactions.  Every operation writes through one sqlite3 connection    *)
(* and commits once, at its end.  A write is [k, a, b]:                    *)
(*   "clear"    UPDATE faces SET person_id = NULL                          *)
(*   "delall"   DELETE FROM persons                                        *)
(*   "insert"   INSERT INTO persons: id a, name Person {b}, confirmed 0    *)
(*   "face"     UPDATE faces SET person_id = b WHERE id = a                *)
(*   "repoint"  UPDATE faces SET person_id = b WHERE person_id = a         *)
(*   "delete"   DELETE FROM persons WHERE id = a                           *)
(* A store failure raises out of the operation before its commit; nothing  *)
(* catches it, the process ends and the connection is closed uncommitted.  *)
(***************************************************************************)
Write(k, a, b) == [k |-> k, a |-> a, b |-> b]

ApplyWrite(st, w) ==
    CASE w.k = "clear" ->
           [st EXCEPT !.faces = [i \in 1..Len(@) |-> [@[i] EXCEPT !.person = NULL]]]
      [] w.k = "delall" ->
           [st EXCEPT !.persons = [p \in {} |-> @[p]]]
      [] w.k = "insert" ->
           [st EXCEPT !.persons = [p \in DOMAIN @ \cup {w.a} |->
               IF p = w.a THEN [name |-> PersonName(w.b), confirmed |-> FALSE] ELSE @[p]]]
      [] w.k = "face" ->
           [st EXCEPT !.faces[w.a].person = w.b]
      [] w.k = "repoint" ->
           [st EXCEPT !.faces = MergeFaces(@, w.a, w.b)]
      [] w.k = "delete" ->
           [st EXCEPT !.persons = [p \in DOMAIN @ \ {w.a} |-> @[p]]]

\* the uncommitted state of the connection after the first n writes of W
RECURSIVE ApplyPrefix(_, _, _)
ApplyPrefix(st, W, n) ==
    IF n = 0 THEN st ELSE ApplyWrite(ApplyPrefix(st, W, n - 1), W[n])

\* the UPDATEs that point the faces of S, in rowid order, to person p
FaceWrites(S, p) ==
    LET sq == SetToSeq(S) IN [j \in 1..Len(sq) |-> Write("face", sq[j], p)]

\* the writes of cluster_faces for the clusters cl[k..]
RECURSIVE ClusterWritesFrom(_, _, _, _)
ClusterWritesFrom(labels, cl, k, npid) ==
    IF k > Len(cl) THEN <<>>
    ELSE <<Write("insert", npid + cl[k], cl[k] + 1)>>
         \o FaceWrites({i \in DOMAIN labels : labels[i] = cl[k]}, npid + cl[k])
         \o ClusterWritesFrom(labels, cl, k + 1, npid)

ClusterWrites(R, npid) ==
    <<Write("clear", 0, 0), Write("delall", 0, 0)>>
    \o ClusterWritesFrom(R.labels, UniqueClusters(R.labels), 1, npid)

\* the UPDATEs of phase 1, one per face that found a person
RECURSIVE Phase1Writes(_, _)
Phase1Writes(steps, n) ==
    IF n > Len(steps) THEN <<>>
    ELSE (IF steps[n].best # NULL
          THEN <<Write("face", steps[n].face, steps[n].best)>> ELSE <<>>)
         \o Phase1Writes(steps, n + 1)

\* the writes of phase 2 for the new persons p, p + 1, ...
RECURSIVE Phase2Writes(_, _, _)
Phase2Writes(R, npid, p) ==
    IF p >= R.nextPersonId THEN <<>>
    ELSE <<Write("insert", p, Len(R.ord) + (p - npid) + 1)>>
         \o FaceWrites(FacesOf(R.faces, p), p)
         \o Phase2Writes(R, npid, p + 1)

PassWrites(R, npid) == Phase1Writes(R.steps, 1) \o Phase2Writes(R, npid, npid)

MergeWrites(p, q) == <<Write("repoint", p, q), Write("delete", p, 0)>>

\* what the other connections see after the writer ended without commit
Rollback_KeepsWrites(st, pending) == pending

Rollback(st, pending) == st

\* the unit with the writes W fails after n of them (n = Len(W): at commit)
FailedUnit(W, unit) ==
    \E n \in 0..Len(W) :
      \E vis \in {Rollback([faces |-> faces, persons |-> persons],
                            ApplyPrefix([faces |-> faces, persons |-> persons], W, n))} :
         /\ faces' = vis.faces
         /\ persons' = vis.persons
         /\ last' = [op |-> "failed", unit |-> unit, writes |-> n, of |-> Len(W)]
         /\ loop' = IdleLoop
         /\ UNCHANGED <<nextPersonId, workers>>

FailedClusterFaces(eps, minS) ==
    /\ loop.pc # "running"
    /\ ~InsufficientData(faces, minS)
    /\ \E R \in {ClusterFacesResult(faces, persons, nextPersonId, eps, minS)} :
         FailedUnit(ClusterWrites(R, nextPersonId), "cluster")

FailedClusterNew(thr, msn) ==
    /\ loop.pc # "running"
    /\ \E ord \in PersonOrders(faces, persons) :
       \E R \in {ClusterNewFaces(faces, persons, nextPersonId, thr, msn, ord)} :
         /\ R.ran = "ran"
         /\ FailedUnit(PassWrites(R, nextPersonId), "pass")

FailedLabelMerge(p, name) ==
    /\ loop.pc # "running"
    /\ PersonExists(persons, p)
    /\ \E q \in SameName(persons, p, name) : FailedUnit(MergeWrites(p, q), "merge")

(***************************************************************************)
(* The HTTP layer (face_api_server.py).  Its handlers open their own       *)
(* connection to the same database file.                                   *)
(***************************************************************************)
\* another process wrote to the store: a running CLI loop notes it
LoopSeesWrite == IF loop.pc = "running" THEN [loop EXCEPT !.inserted = TRUE] ELSE IdleLoop

\* assign_face_to_person(face_id, person_id)
AssignFaceToPerson(f, p) ==
    /\ IF f \in 1..Len(faces) /\ p \in DOMAIN persons
       THEN /\ faces' = [faces EXCEPT ![f].person = p]
            /\ last' = [op |-> "assign", ok |-> TRUE]
       ELSE /\ UNCHANGED faces
            /\ last' = [op |-> "assign", ok |-> FALSE]
    /\ loop' = LoopSeesWrite
    /\ UNCHANGED <<persons, nextPersonId, workers>>

\* ignore_face(face_id)
IgnoreFace(f) ==
    /\ IF f \in 1..Len(faces)
       THEN /\ faces' = [faces EXCEPT ![f].ignored = TRUE]
            /\ last' = [op |-> "ignore", ok |-> TRUE]
       ELSE /\ UNCHANGED faces
            /\ last' = [op |-> "ignore", ok |-> FALSE]
    /\ loop' = LoopSeesWrite
    /\ UNCHANGED <<persons, nextPersonId, workers>>

\* rename_person_with_label_mode: looks the person up, then runs the CLI
\* with --label person_id new_name
RenamePerson(p, name) ==
    /\ PersonExists(persons, p)
    /\ LabelPerson(p, name)

\* defaults of --similarity, --min-samples-new and --max-iterations, which
\* the background worker does not override
DefaultSimilarity == <<3, 5>>
DefaultMinSamplesNew == 30
DefaultMaxIterations == 10

\* do_POST /api/process-new-images: starts a daemon thread running
\* process_new_images and answers at once.  A worker is the position of
\* one such thread: "extract" up to the end of step 5, "cluster" while its
\* --cluster-new-loop subprocess (step 6) runs.
ProcessNewImages ==
    /\ Len(workers) < MaxWorkers
    /\ workers' = Append(workers, [pc |-> "extract", iteration |-> 0])
    /\ last' = [op |-> "processNewImages"]
    /\ UNCHANGED <<faces, persons, nextPersonId, loop>>

\* step 5, the --extract subprocess: the faces of the new images (here at
\* most one) are inserted; then step 6 starts
WorkerExtract(w, batch) ==
    /\ w \in 1..Len(workers)
    /\ workers[w].pc = "extract"
    /\ Len(faces) + Len(batch) <= MaxServerFaces
    /\ faces' = faces \o [j \in 1..Len(batch) |-> NewFace(batch[j])]
    /\ workers' = [workers EXCEPT ![w].pc = "cluster"]
    /\ last' = [op |-> "insert"]
    /\ loop' = LoopSeesWrite
    /\ UNCHANGED <<persons, nextPersonId>>

RemoveAt(sq, w) == SubSeq(sq, 1, w - 1) \o SubSeq(sq, w + 1, Len(sq))

\* one iteration of the worker's cluster_new_faces_loop; the thread ends
\* when the subprocess returns or dies
WorkerPass(w) ==
    /\ w \in 1..Len(workers)
    /\ workers[w].pc = "cluster"
    /\ \E ord \in PersonOrders(faces, persons) :
       \E R \in {ClusterNewFaces(faces, persons, nextPersonId,
                                  DefaultSimilarity, DefaultMinSamplesNew, ord)} :
         LET l == LoopAfterPass([IdleLoop EXCEPT !.pc = "running",
                                                 !.thr = DefaultSimilarity,
                                                 !.msn = DefaultMinSamplesNew,
                                                 !.maxIter = DefaultMaxIterations,
                                                 !.iteration = workers[w].iteration], R)
         IN  /\ R.nextPersonId - 1 <= MaxPersonId
             /\ faces' = R.faces
             /\ persons' = R.persons
             /\ nextPersonId' = R.nextPersonId
             /\ workers' = IF l.pc = "running"
                           THEN [workers EXCEPT ![w].iteration = l.iteration]
                           ELSE RemoveAt(workers, w)
             /\ last' = PassRecord(R, TRUE)
             /\ loop' = LoopSeesWrite

(***************************************************************************)
(* Next-state relation: the CLI runs one operation at a time; the Detector *)
(* may insert between two passes of the loop.                              *)
(***************************************************************************)
Next ==
    \/ \E e \in Embeddings : InsertFace(e)
    \/ \E eps \in ClusterEps, minS \in MinSamplesValues : ClusterFaces(eps, minS)
    \/ \E thr \in Thresholds, msn \in MinSamplesValues : ClusterNew(thr, msn)
    \/ \E thr \in Thresholds, msn \in MinSamplesValues, maxIter \in 1..MaxIterations :
          ClusterNewLoop(thr, msn, maxIter)
    \/ LoopPass
    \/ \E p \in 1..MaxPersonId, name \in LabelNames : LabelPerson(p, name)
    \/ DeleteUnconfirmed

Spec == Init /\ [][Next]_vars

(***************************************************************************)
(* The three transactional units with store failures                       *)
(***************************************************************************)
FailNext ==
    \/ \E e \in Embeddings : InsertFace(e)
    \/ \E eps \in ClusterEps, minS \in MinSamplesValues : ClusterFaces(eps, minS)
    \/ \E thr \in Thresholds, msn \in MinSamplesValues : ClusterNew(thr, msn)
    \/ \E p \in 1..MaxPersonId, name \in LabelNames : LabelPerson(p, name)
    \/ \E eps \in ClusterEps, minS \in MinSamplesValues : FailedClusterFaces(eps, minS)
    \/ \E thr \in Thresholds, msn \in MinSamplesValues : FailedClusterNew(thr, msn)
    \/ \E p \in 1..MaxPersonId, name \in LabelNames : FailedLabelMerge(p, name)

FailSpec == Init /\ [][FailNext]_vars

(***************************************************************************)
(* The HTTP server: requests arrive at any time, and every                 *)
(* process-new-images request has its own background worker.  Persons are  *)
(* bootstrapped by the CLI's batch clusterer.                              *)
(***************************************************************************)
ServerNext ==
    \/ \E eps \in ClusterEps, minS \in MinSamplesValues : ClusterFaces(eps, minS)
    \/ \E p \in 1..MaxPersonId, name \in LabelNames : RenamePerson(p, name)
    \/ \E f \in 1..MaxServerFaces, p \in 1..MaxPersonId : AssignFaceToPerson(f, p)
    \/ \E f \in 1..MaxServerFaces : IgnoreFace(f)
    \/ ProcessNewImages
    \/ \E w \in 1..MaxWorkers, batch \in {<<>>} \cup {<<e>> : e \in Embeddings} :
          WorkerExtract(w, batch)
    \/ \E w \in 1..MaxWorkers : WorkerPass(w)

ServerSpec == Init /\ [][ServerNext]_vars

(***************************************************************************)
(* A store that also holds a Face whose embedding BLOB has another size    *)
(* than the Detector's (the column has no size constraint; rows of an      *)
(* earlier detector are what --clear exists for).  np.frombuffer then      *)
(* yields a vector of another length and numpy / sklearn raise ValueError  *)
(* as soon as it meets a vector of the regular length.                     *)
(***************************************************************************)
MalformedEmbedding == <<1>>

\* the store gets a Face row of the other size next to regular ones
InsertMalformedFace ==
    /\ Len(faces) >= 1
    /\ Len(faces) < MaxFaces
    /\ \A i \in 1..Len(faces) : faces[i].emb # MalformedEmbedding
    /\ faces' = Append(faces, NewFace(MalformedEmbedding))
    /\ loop' = IdleLoop
    /\ last' = [op |-> "insert"]
    /\ UNCHANGED <<persons, nextPersonId, workers>>

\* the embeddings read by an operation do not all have one length
DimMismatch(fs) == \E i, j \in 1..Len(fs) : Len(fs[i].emb) # Len(fs[j].emb)

\* cluster_faces: np.array(embeddings) / DBSCAN.fit_predict raise on ragged
\* input, before the first write
ClusterFacesChecked(eps, minS) ==
    IF ~InsufficientData(faces, minS) /\ DimMismatch(faces)
    THEN /\ loop.pc # "running"
         /\ last' = [op |-> "cluster", ran |-> FALSE, minS |-> minS, labels |-> <<>>,
                     eps |-> eps, raised |-> TRUE]
         /\ loop' = IdleLoop
         /\ UNCHANGED <<faces, persons, nextPersonId, workers>>
    ELSE ClusterFaces(eps, minS)

\* cluster_new_faces: np.mean / cosine_similarity raise when a face and a
\* centroid differ in length; the UPDATEs made so far are not committed
ClusterNewChecked(thr, msn) ==
    IF NewFaces(faces) # <<>> /\ JoinedPersons(faces, persons) # {} /\ DimMismatch(faces)
    THEN /\ loop.pc # "running"
         /\ last' = [op |-> "pass", inLoop |-> FALSE, ran |-> "raised", thr |-> thr,
                     msn |-> msn, ord |-> <<>>, assigned |-> 0, newPeople |-> 0,
                     unmatched |-> <<>>, steps |-> <<>>]
         /\ loop' = IdleLoop
         /\ UNCHANGED <<faces, persons, nextPersonId, workers>>
    ELSE ClusterNew(thr, msn)

MalformedNext ==
    \/ \E e \in Embeddings : InsertFace(e)
    \/ InsertMalformedFace
    \/ \E eps \in ClusterEps, minS \in MinSamplesValues : ClusterFacesChecked(eps, minS)
    \/ \E thr \in Thresholds, msn \in MinSamplesValues : ClusterNewChecked(thr, msn)

MalformedSpec == Init /\ [][MalformedNext]_vars

(***************************************************************************)
(* Bootstrap of a library: faces are extracted, then --cluster runs with   *)
(* the default --eps; a curator may have labelled Persons of an earlier    *)
(* run.                                                                    *)
(***************************************************************************)
\* default of --eps
DefaultEps == <<19, 50>>

BootstrapInsert(e) ==
    /\ Len(faces) < MaxBootstrapFaces
    /\ faces' = Append(faces, NewFace(e))
    /\ loop' = IdleLoop
    /\ last' = [op |-> "insert"]
    /\ UNCHANGED <<persons, nextPersonId, workers>>

BootstrapNext ==
    \/ \E e \in Embeddings : BootstrapInsert(e)
    \/ \E minS \in MinSamplesValues : ClusterFaces(DefaultEps, minS)
    \/ \E p \in 1..MaxPersonId, name \in LabelNames : LabelPerson(p, name)

BootstrapSpec == Init /\ [][BootstrapNext]_vars

(***************************************************************************)
(* Row order.  SELECT id, embedding FROM faces WHERE embedding IS NOT NULL *)
(* has no ORDER BY: the rows come in the order of the scan the store       *)
(* chooses, ascending rowid or (PRAGMA reverse_unordered_selects, or a     *)
(* different plan) descending.  DBSCAN scans its points in row order.      *)
(***************************************************************************)
\* a library whose faces lie 45 degrees apart: two about (1,0), one at
\* (1,1), one at (0,1), one at (-1,1), two about (-1,0)
LibraryFaces ==
    <<<<1, 0>>, <<2, 0>>, <<1, 1>>, <<0, 1>>, <<0 - 1, 1>>, <<0 - 1, 0>>, <<0 - 2, 0>>>>

LibraryInsert(e) ==
    /\ \E k \in 1..Len(LibraryFaces) : LibraryFaces[k] = e
    /\ \A i \in 1..Len(faces) : faces[i].emb # e
    /\ faces' = Append(faces, NewFace(e))
    /\ loop' = IdleLoop
    /\ last' = [op |-> "insert"]
    /\ UNCHANGED <<persons, nextPersonId, workers>>

\* the orders in which cursor.fetchall() may return n rows: order[k] is the
\* face id of row k
RowOrders(n) == {[k \in 1..n |-> k], [k \in 1..n |-> (n + 1) - k]}

\* cluster_faces over the rows in the given order: face_ids[k] = order[k]
ClusterFacesRows(order, eps, minS) ==
    /\ loop.pc # "running"
    /\ IF InsufficientData(faces, minS)
       THEN /\ UNCHANGED <<faces, persons, nextPersonId>>
            /\ last' = [op |-> "cluster", ran |-> FALSE, minS |-> minS,
                        labels |-> <<>>]
       ELSE \E R \in {ClusterFacesResult([k \in 1..Len(faces) |-> faces[order[k]]],
                                          persons, nextPersonId, eps, minS)} :
                /\ R.nextPersonId - 1 <= MaxOrderPersonId
                /\ faces' = [i \in 1..Len(faces) |->
                               R.faces[CHOOSE k \in 1..Len(faces) : order[k] = i]]
                /\ persons' = R.persons
                /\ nextPersonId' = R.nextPersonId
                /\ last' = [op |-> "cluster", ran |-> TRUE, minS |-> minS,
                            labels |-> R.labels]
    /\ loop' = IdleLoop
    /\ UNCHANGED workers

OrderNext ==
    \/ \E e \in {LibraryFaces[k] : k \in 1..Len(LibraryFaces)} : LibraryInsert(e)
    \/ \E order \in RowOrders(Len(faces)) :
          ClusterFacesRows(order, DefaultEps, OrderMinSamples)

OrderSpec == Init /\ [][OrderNext]_vars

(***************************************************************************)
(* Single operations over a library that holds a face halfway between two  *)
(* others: (1,1) is as similar to (1,0) as to (0,1).                       *)
(***************************************************************************)
TieEmbeddings == {<<1, 0>>, <<0, 1>>, <<1, 1>>}

TieInsert(e) ==
    /\ Len(faces) < MaxFaces
    /\ faces' = Append(faces, NewFace(e))
    /\ loop' = IdleLoop
    /\ last' = [op |-> "insert"]
    /\ UNCHANGED <<persons, nextPersonId, workers>>

TieNext ==
    \/ \E e \in TieEmbeddings : TieInsert(e)
    \/ \E eps \in ClusterEps, minS \in MinSamplesValues : ClusterFaces(eps, minS)
    \/ \E thr \in Thresholds, msn \in MinSamplesValues : ClusterNew(thr, msn)
    \/ \E p \in 1..MaxPersonId, name \in LabelNames : LabelPerson(p, name)
    \/ DeleteUnconfirmed

TieSpec == Init /\ [][TieNext]_vars

(***************************************************************************)
(* A pass run by another process than the curation.  Every process has its *)
(* own sqlite3 connection (line 37) in the default isolation mode: the     *)
(* SELECTs of the pass run outside any transaction and hold no lock once   *)
(* fetchall() has returned; the first UPDATE opens the transaction that    *)
(* the commit at the end of the pass closes.  Between the two, label_person*)
(* and delete_unconfirmed_people of another process may commit.  The batch *)
(* clusterer is not started while a pass is in flight.                     *)
(***************************************************************************)
\* the two SELECTs: the pass keeps new_faces and existing_data, here the
\* tables they were read from and the order of the join rows
PassRead(thr, msn) ==
    /\ loop.pc # "running"
    /\ workers = <<>>
    /\ \E ord \in PersonOrders(faces, persons) :
          workers' = <<[pc |-> "read", iteration |-> 0, fs |-> faces, ps |-> persons,
                        ord |-> ord, thr |-> thr, msn |-> msn]>>
    /\ loop' = IdleLoop
    /\ last' = [op |-> "passRead"]
    /\ UNCHANGED <<faces, persons, nextPersonId>>

\* UPDATE faces SET person_id = ? WHERE id = ? for every face the pass gave
\* a person; rows it did not touch keep what the store holds now
PassUpdates(fs, ps, snap, R) ==
    [i \in 1..Len(fs) |->
        IF i <= Len(snap) /\ R.faces[i].person # snap[i].person
        THEN [fs[i] EXCEPT !.person = R.faces[i].person]
        ELSE fs[i]]

\* phases 1 and 2 computed from what was read, written to the store as it is
\* now, and the commit; INSERT INTO persons takes the ids from the current
\* AUTOINCREMENT counter
PassWrite ==
    /\ Len(workers) = 1 /\ workers[1].pc = "read"
    /\ LET w == workers[1]
       IN  \E R \in {ClusterNewFaces(w.fs, w.ps, nextPersonId, w.thr, w.msn, w.ord)} :
             /\ R.nextPersonId - 1 <= MaxPersonId
             /\ faces' = PassUpdates(faces, persons, w.fs, R)
             /\ persons' = [p \in DOMAIN persons \cup (DOMAIN R.persons \ DOMAIN w.ps) |->
                               IF p \in DOMAIN R.persons \ DOMAIN w.ps
                               THEN R.persons[p] ELSE persons[p]]
             /\ nextPersonId' = R.nextPersonId
             /\ last' = PassRecord(R, FALSE)
    /\ workers' = <<>>
    /\ loop' = IdleLoop

RaceNext ==
    \/ \E e \in Embeddings : InsertFace(e)
    \/ \E eps \in ClusterEps, minS \in MinSamplesValues :
          workers = <<>> /\ ClusterFaces(eps, minS)
    \/ \E thr \in Thresholds, msn \in MinSamplesValues : PassRead(thr, msn)
    \/ PassWrite
    \/ \E p \in 1..MaxPersonId, name \in LabelNames : LabelPerson(p, name)
    \/ DeleteUnconfirmed

RaceSpec == Init /\ [][RaceNext]_vars

(***************************************************************************)
(* The convergence loop with up to MaxLoopIterations iterations.  workers  *)
(* is not used by the command line; here it keeps, as a history variable,  *)
(* how many Faces had an embedding and no person_id when the loop was      *)
(* called.                                                                 *)
(***************************************************************************)
LoopCallCounted(thr, msn, maxIter) ==
    /\ LoopCall(thr, msn, maxIter)
    /\ workers' = <<[pc |-> "loop", iteration |-> 0, U |-> Len(NewFaces(faces))]>>

LoopNext ==
    \/ \E e \in Embeddings : InsertFace(e)
    \/ \E eps \in ClusterEps, minS \in MinSamplesValues : ClusterFaces(eps, minS)
    \/ \E thr \in Thresholds, msn \in MinSamplesValues, maxIter \in 1..MaxLoopIterations :
          LoopCallCounted(thr, msn, maxIter)
    \/ LoopPass

LoopSpec == Init /\ [][LoopNext]_vars

(***************************************************************************)
(* Properties                                                              *)
(***************************************************************************)
\* the step is a pass of cluster_new_faces (single or inside the loop)
PassStep == last'.op = "pass"

\* the step is a pass of a second cluster_new_faces_loop run that directly
\* follows a run with the same parameters, with no Face inserted since
RerunPassStep ==
    /\ PassStep
    /\ last'.inLoop
    /\ loop'.rerun
    /\ ~loop'.inserted

\* C1 as stated: a second run of the convergence loop right after a
\* completed run (same parameters, no Face inserted) assigns no Face and
\* creates no Person.
C1_IdempotenceAnyRun ==
    [][RerunPassStep => (faces' = faces /\ persons' = persons)]_vars

\* C1 amended: the same, when the first run did not stop at the
\* max_iterations cap right after a pass that still made progress.
C1_IdempotenceAfterFixpoint ==
    [][(RerunPassStep /\ ~loop'.prevCapped) => (faces' = faces /\ persons' = persons)]_vars

\* a second run that really ran a pass over unassigned faces and found
\* nothing to do
C1_Witness ==
    /\ last.op = "pass" /\ last.inLoop /\ last.ran = "ran"
    /\ loop.rerun /\ ~loop.inserted /\ ~loop.prevCapped
    /\ loop.pc = "returned"
    /\ Len(last.unmatched) > 0


\* C2 as stated: cluster_new_faces_loop always ends by returning its
\* result; it never ends by raising an exception.
C2_LoopAlwaysReturns == LoopFinished => loop.pc = "returned"

\* the pass recorded in rec assigned a Face or created a Person
Progress(rec) == rec.ran = "ran" /\ (rec.assigned > 0 \/ rec.newPeople > 0)

\* C3: every iteration of the loop is one pass; after a pass the loop goes
\* on exactly when that pass made progress and fewer than max_iterations
\* passes have been executed, and it never executes more than
\* max_iterations passes.
C3_LoopStopsAtFixpointOrCap ==
    [][(PassStep /\ last'.inLoop) =>
         /\ loop'.iteration = (IF loop.pc = "running" THEN loop.iteration ELSE 0) + 1
         /\ loop'.iteration <= loop'.maxIter
         /\ (loop'.pc = "running") <=>
               (Progress(last') /\ loop'.iteration < loop'.maxIter)
         /\ loop'.pc \in {"running", "returned", "raised"}]_vars

\* the loop stopped below the cap, at a second pass without progress,
\* after a first pass that made progress
C3_Witness ==
    /\ loop.pc = "returned" /\ last.op = "pass" /\ last.ran = "ran"
    /\ ~Progress(last)
    /\ loop.iteration = 2
    /\ loop.total_assigned + loop.total_new > 0

\* C4: a pass of cluster_new_faces, alone or inside the loop, leaves the
\* person_id of every Face that had one at the start of the pass as it was.
C4_AssignedFacesKeepPerson ==
    [][PassStep =>
         /\ Len(faces') = Len(faces)
         /\ \A i \in 1..Len(faces) :
              faces[i].person # NULL => faces'[i].person = faces[i].person]_vars

\* a pass that assigned a Face while another Face was already assigned
C4_Witness ==
    /\ last.op = "pass" /\ last.ran = "ran" /\ last.assigned > 0
    /\ \E i \in 1..Len(faces) :
         faces[i].person # NULL /\ \A k \in 1..Len(last.steps) : last.steps[k].face # i

\* similarity of the Face of step st to the k-th centroid it was compared with
StepSim(st, k) == CentroidSim(faces[st.face].emb, st.cents[k])

\* C5: in a Reconciler pass a Face whose greatest similarity to the
\* centroids it is compared with is equal to or below the threshold is
\* assigned to no existing Person and lands in the unmatched set.
C5_ThresholdBoundary ==
    last.op = "pass" =>
      \A n \in 1..Len(last.steps) :
        LET st == last.steps[n]
        IN  (\A k \in 1..Len(st.cents) : ~SimGT(StepSim(st, k), Frac(last.thr)))
              => /\ st.best = NULL
                 /\ \E j \in 1..Len(last.unmatched) : last.unmatched[j] = st.face
                 /\ \A k \in 1..Len(last.ord) : faces[st.face].person # last.ord[k]

\* a pass met a Face whose greatest similarity equals the threshold exactly
C5_Witness ==
    /\ last.op = "pass" /\ last.ran = "ran"
    /\ \E n \in 1..Len(last.steps) :
         LET st == last.steps[n]
         IN  /\ \A k \in 1..Len(st.cents) : ~SimGT(StepSim(st, k), Frac(last.thr))
             /\ \E k \in 1..Len(st.cents) : ~SimGT(Frac(last.thr), StepSim(st, k))

\* c2 is (c1 + e) / 2, for centroids <<x, y, d>>
IsHalfwayTo(c2, c1, e) ==
    /\ c2[1] * 2 * c1[3] = (c1[1] + c1[3] * e[1]) * c2[3]
    /\ c2[2] * 2 * c1[3] = (c1[2] + c1[3] * e[2]) * c2[3]

\* C6 as stated: for every threshold, a Face whose greatest similarity to
\* the centroids strictly exceeds the threshold is assigned to a Person that
\* attains this maximum, and only the centroid of that Person changes, to
\* (old centroid + embedding) / 2.
C6_AssignedToBestAboveThreshold ==
    last.op = "pass" =>
      \A n \in 1..Len(last.steps) :
        LET st == last.steps[n]
        IN  /\ (\E k \in 1..Len(st.cents) : SimGT(StepSim(st, k), Frac(last.thr)))
                 => /\ st.best # NULL
                    /\ faces[st.face].person = st.best
                    /\ \E k \in 1..Len(st.cents) :
                         /\ last.ord[k] = st.best
                         /\ \A j \in 1..Len(st.cents) : ~SimGT(StepSim(st, j), StepSim(st, k))
            /\ n < Len(last.steps) =>
                 \A k \in 1..Len(st.cents) :
                   IF last.ord[k] = st.best
                   THEN IsHalfwayTo(last.steps[n + 1].cents[k], st.cents[k], faces[st.face].emb)
                   ELSE last.steps[n + 1].cents[k] = st.cents[k]

\* Faces unassigned before the step that the step did not give to a Person
\* that existed before it: the unmatched set of the pass
UnmatchedInStep ==
    {i \in 1..Len(faces) : faces[i].person = NULL /\ faces'[i].person \notin DOMAIN persons}

\* C7: a pass whose unmatched set is smaller than min_samples_new creates
\* no Person and leaves every unmatched Face unassigned.
C7_NoMiningBelowMinSamples ==
    [][(PassStep /\ Cardinality(UnmatchedInStep) < last'.msn) =>
         /\ persons' = persons
         /\ \A i \in UnmatchedInStep : faces'[i].person = NULL]_vars

\* a pass left unmatched Faces, fewer than min_samples_new, after
\* assigning another Face
C7_Witness ==
    /\ last.op = "pass" /\ last.ran = "ran"
    /\ Len(last.unmatched) > 0 /\ Len(last.unmatched) < last.msn
    /\ last.assigned > 0

\* the Faces unassigned before the step are at least min_samples_new, are
\* pairwise within cosine distance 0.4 and none is more similar than the
\* threshold to the centroid of any Person
MinableGroup(thr, msn) ==
    LET U == {i \in 1..Len(faces) : faces[i].person = NULL}
    IN  /\ Cardinality(U) >= msn
        /\ \A i, j \in U : WithinEps(faces[i].emb, faces[j].emb, <<2, 5>>)
        /\ \A i \in U : \A p \in JoinedPersons(faces, persons) :
             ~SimGT(CentroidSim(faces[i].emb, MeanCentroid(faces, p)), Frac(thr))

\* the step created exactly one Person, unconfirmed, holding at least msn
\* of the Faces that were unassigned
OneNewPerson(msn) ==
    LET new == DOMAIN persons' \ DOMAIN persons
    IN  /\ Cardinality(new) = 1
        /\ \A p \in new :
             /\ ~persons'[p].confirmed
             /\ Cardinality({i \in 1..Len(faces) :
                               faces[i].person = NULL /\ faces'[i].person = p}) >= msn

\* C8 as stated: such a group always becomes exactly one new unconfirmed
\* Person, also when the store holds no Person.
C8_GroupBecomesPersonAlways ==
    [][(PassStep /\ MinableGroup(last'.thr, last'.msn)) => OneNewPerson(last'.msn)]_vars

\* C8 amended: such a group becomes exactly one new unconfirmed Person when
\* some Person with an assigned Face exists at the start of the pass.
C8_GroupBecomesPersonGivenPersons ==
    [][(PassStep /\ JoinedPersons(faces, persons) # {}
                 /\ MinableGroup(last'.thr, last'.msn)) => OneNewPerson(last'.msn)]_vars

\* a pass mined one Person out of two or more unmatched Faces
C8_Witness ==
    /\ last.op = "pass" /\ last.ran = "ran"
    /\ last.assigned = 0 /\ last.newPeople = 1
    /\ last.msn >= 2 /\ Len(last.unmatched) >= last.msn
    /\ \A j \in 1..Len(last.unmatched) : faces[last.unmatched[j]].person = nextPersonId - 1

C10_OnePersonPerLabelledName ==
    [][(last'.op = "label" /\ last'.p \in DOMAIN persons) =>
         Cardinality({r \in DOMAIN persons' : persons'[r].name = last'.name}) = 1]_vars

\* the Person that Face i points to exists and is not confirmed
PointsToUnconfirmed(i) ==
    faces[i].person \in DOMAIN persons /\ ~persons[faces[i].person].confirmed

\* the Person that Face i points to exists and is confirmed
PointsToConfirmed(i) ==
    faces[i].person \in DOMAIN persons /\ persons[faces[i].person].confirmed

\* C11: after delete_unconfirmed_people no unconfirmed Person is left, every
\* Face of an unconfirmed Person is unassigned, confirmed Person rows and the
\* person_id of their Faces are as before, and no Face row is deleted.
C11_DeleteUnconfirmedFrame ==
    [][(last'.op = "deleteUnconfirmed") =>
         /\ \A p \in DOMAIN persons' : persons'[p].confirmed
         /\ Len(faces') = Len(faces)
         /\ \A i \in 1..Len(faces) :
              /\ faces'[i].emb = faces[i].emb
              /\ PointsToUnconfirmed(i) => faces'[i].person = NULL
              /\ PointsToConfirmed(i) => faces'[i].person = faces[i].person
         /\ \A p \in DOMAIN persons :
              persons[p].confirmed => (p \in DOMAIN persons' /\ persons'[p] = persons[p])]_vars

\* a delete that removed an unconfirmed Person with a Face and kept a
\* confirmed Person with a Face
C11_Witness ==
    /\ last.op = "deleteUnconfirmed" /\ last.ran
    /\ last.deleted_count > 0 /\ last.faces_to_clear > 0
    /\ \E p \in DOMAIN persons : FacesOf(faces, p) # {}

\* C12: a cluster_faces run over at least min_samples embeddings leaves no
\* Person row from before the run, every Person it leaves is unconfirmed,
\* named "Person n" for the n-th group of the run and holds exactly the
\* Faces of that group, and a Face is assigned exactly when its group is
\* not noise.
C12_BatchReset ==
    [][(last'.op = "cluster" /\ ~(Len(faces) < last'.minS)) =>
         /\ Len(last'.labels) = Len(faces)
         /\ DOMAIN persons' \cap DOMAIN persons = {}
         /\ Len(faces') = Len(faces)
         /\ \A p \in DOMAIN persons' :
              /\ ~persons'[p].confirmed
              /\ \E L \in {last'.labels[i] : i \in 1..Len(faces)} \ {NOISE} :
                   /\ persons'[p].name = PersonName(L + 1)
                   /\ FacesOf(faces', p) = {i \in 1..Len(faces) : last'.labels[i] = L}
         /\ \A i \in 1..Len(faces) :
              /\ (faces'[i].person # NULL) <=> (last'.labels[i] # NOISE)
              /\ faces'[i].person # NULL => faces'[i].person \in DOMAIN persons']_vars

\* a run that replaced older Person rows, found a group and left a Face as
\* noise
C12_Witness ==
    /\ last.op = "cluster" /\ last.ran
    /\ DOMAIN persons # {}
    /\ nextPersonId - 1 > Cardinality(DOMAIN persons)
    /\ \E i \in 1..Len(faces) : last.labels[i] = NOISE

\* C13: cluster_faces with fewer embeddings than min_samples changes no
\* Person row and no person_id.
C13_InsufficientDataNoOp ==
    [][(last'.op = "cluster" /\ Len(faces) < last'.minS) =>
         (faces' = faces /\ persons' = persons)]_vars

\* the run was refused while a Person with a Face existed
C13_Witness ==
    /\ last.op = "cluster" /\ ~last.ran
    /\ \E p \in DOMAIN persons : FacesOf(faces, p) # {}

\* C19: label(p, name) with p present and no other Person named name sets
\* the name and confirmed of p, creates or deletes no Person row and changes
\* no person_id.
C19_RenameBranch ==
    [][(/\ last'.op = "label"
        /\ last'.p \in DOMAIN persons
        /\ \A q \in DOMAIN persons \ {last'.p} : persons[q].name # last'.name) =>
         /\ DOMAIN persons' = DOMAIN persons
         /\ persons'[last'.p] = [name |-> last'.name, confirmed |-> TRUE]
         /\ \A r \in DOMAIN persons \ {last'.p} : persons'[r] = persons[r]
         /\ faces' = faces]_vars

\* a rename of an unconfirmed Person while another Person existed
C19_Witness ==
    /\ last.op = "label" /\ last.branch = "rename"
    /\ persons[last.p] = [name |-> last.name, confirmed |-> TRUE]
    /\ \E q \in DOMAIN persons \ {last.p} : FacesOf(faces, q) # {}

\* C20: label(p, name) with no Person row p reports "not found" and changes
\* no Person row and no person_id, also when a Person is named name.
C20_NotFoundNoOp ==
    [][(last'.op = "label" /\ last'.p \notin DOMAIN persons) =>
         /\ last'.branch = "notfound"
         /\ faces' = faces
         /\ persons' = persons]_vars

\* a label of a missing Person while another Person had that name
C20_Witness ==
    /\ last.op = "label" /\ last.branch = "notfound"
    /\ last.p \notin DOMAIN persons
    /\ \E q \in DOMAIN persons : persons[q].name = last.name

\* C18: when the store fails inside a cluster run, a pass or a label-merge,
\* at any of its writes or at its commit, no write of the unit is visible:
\* every Person row and every Face is as before the unit started.
C18_FailedUnitInvisible ==
    [][(last'.op = "failed") => (faces' = faces /\ persons' = persons)]_vars

\* a cluster run failed right after its reset (person_ids cleared, Persons
\* deleted, no new label written) and the Persons and their Faces are there
C18_Witness ==
    /\ last.op = "failed" /\ last.unit = "cluster"
    /\ last.writes = 2 /\ last.of > 2
    /\ \E p \in DOMAIN persons : FacesOf(faces, p) # {}

\* the latest operation is one of the identity engine
EngineOps == {"cluster", "pass", "label", "deleteUnconfirmed"}

\* C14 as stated: cluster_faces and cluster_new_faces never give a person_id
\* to a Face that is ignored.
C14_IgnoredNeverAssigned ==
    [][(last'.op \in {"cluster", "pass"}) =>
         \A i \in 1..Len(faces) :
           faces[i].ignored =>
             (faces'[i].person = NULL \/ faces'[i].person = faces[i].person)]_vars

\* C15 as stated: after every completed operation of the identity engine
\* every Person row has at least one Face pointing to it.
C15_NoEmptyPersonAfterOperation ==
    (last.op \in EngineOps) => \A p \in DOMAIN persons : FacesOf(faces, p) # {}

\* C16 as stated: a step of any component other than the identity engine
\* changes the person_id of no existing Face and inserts Faces only with
\* person_id unset.
C16_OnlyEngineWritesPersonId ==
    [][(last'.op \notin EngineOps) =>
         /\ Len(faces') >= Len(faces)
         /\ \A i \in 1..Len(faces) : faces'[i].person = faces[i].person
         /\ \A i \in (Len(faces) + 1)..Len(faces') : faces'[i].person = NULL]_vars

\* clustering operations in progress: cluster-new-loop runs of the CLI and
\* of the background workers
InProgress ==
    Cardinality({w \in 1..Len(workers) : workers[w].pc = "cluster"})
    + (IF loop.pc = "running" THEN 1 ELSE 0)

\* C17 as stated: at most one clustering operation is in progress.
C17_SingleWriter == InProgress <= 1

\* the index of the one Face with a malformed embedding, 0 if there is none
MalformedFace ==
    IF \E i \in 1..Len(faces) : faces[i].emb = MalformedEmbedding
    THEN CHOOSE i \in 1..Len(faces) : faces[i].emb = MalformedEmbedding
    ELSE 0

\* the Faces without the malformed one, and where they sit in faces
WellFormedFaces == RemoveAt(faces, MalformedFace)

RowOf(k) == IF k < MalformedFace THEN k ELSE k + 1

\* C21 as stated: a cluster run or a pass whose input holds one malformed
\* embedding leaves that Face unassigned and gives every other Face the
\* person_id it would get if the malformed Face were absent.
C21_MalformedFaceSkipped ==
    [][(MalformedFace # 0) =>
         /\ (last'.op = "cluster" /\ ~InsufficientData(WellFormedFaces, last'.minS)) =>
               LET R == ClusterFacesResult(WellFormedFaces, persons, nextPersonId,
                                           last'.eps, last'.minS)
               IN  /\ faces'[MalformedFace].person = NULL
                   /\ \A k \in 1..Len(WellFormedFaces) :
                        faces'[RowOf(k)].person = R.faces[k].person
         /\ (last'.op = "pass" /\ NewFaces(WellFormedFaces) # <<>>
                               /\ JoinedPersons(faces, persons) # {}) =>
               \E ord \in PersonOrders(faces, persons) :
                 LET R == ClusterNewFaces(WellFormedFaces, persons, nextPersonId,
                                          last'.thr, last'.msn, ord)
                 IN  /\ faces'[MalformedFace].person = NULL
                     /\ \A k \in 1..Len(WellFormedFaces) :
                          faces'[RowOf(k)].person = R.faces[k].person]_vars

\* C22: no operation of the identity engine deletes a Face row or changes
\* anything of a Face but its person_id: embedding, bounding box,
\* confidence (and the ignored flag) stay as they are.
C22_OnlyPersonIdChanges ==
    [][(last'.op \in EngineOps) =>
         /\ Len(faces') = Len(faces)
         /\ \A i \in 1..Len(faces) :
              [faces'[i] EXCEPT !.person = NULL] = [faces[i] EXCEPT !.person = NULL]]_vars

\* a delete of unconfirmed Persons unassigned two Faces of a full store
C22_Witness ==
    /\ last.op = "deleteUnconfirmed" /\ last.ran
    /\ last.faces_to_clear >= 2
    /\ Len(faces) = MaxFaces

\* G and the rest of the Faces are two groups of equal size: similarity at
\* least 0.9 inside a group, below 0.3 across
TwoGroups(G) ==
    LET H == (1..Len(faces)) \ G
        sim(i, j) == CosSim(faces[i].emb, faces[j].emb)
    IN  /\ Cardinality(G) = Cardinality(H)
        /\ \A i, j \in G : ~SimGT(Frac(<<9, 10>>), sim(i, j))
        /\ \A i, j \in H : ~SimGT(Frac(<<9, 10>>), sim(i, j))
        /\ \A i \in G, j \in H : SimGT(Frac(<<3, 10>>), sim(i, j))

\* C23: when the Faces are two such groups of at least min_samples Faces
\* each, cluster_faces with eps 0.38 leaves, whatever the store held before,
\* exactly two Persons, each with exactly the Faces of one group.
C23_BootstrapTwoGroups ==
    [][(last'.op = "cluster") =>
         \A G \in SUBSET (1..Len(faces)) :
           (TwoGroups(G) /\ Cardinality(G) >= last'.minS) =>
             /\ Cardinality(DOMAIN persons') = 2
             /\ \E p, q \in DOMAIN persons' :
                  /\ p # q
                  /\ FacesOf(faces', p) = G
                  /\ FacesOf(faces', q) = (1..Len(faces)) \ G]_vars

\* a run with min_samples 2 over two groups of two Faces, on a store that
\* already held a Person of an earlier run
C23_Witness ==
    /\ last.op = "cluster" /\ last.ran /\ last.minS = 2
    /\ Len(faces) = 4
    /\ \E G \in SUBSET (1..Len(faces)) : TwoGroups(G) /\ Cardinality(G) = 2
    /\ Cardinality(DOMAIN persons) = 2
    /\ nextPersonId = 4

\* the partition of the Faces into the groups of the Persons; the Faces in
\* no group are the noise
Partition(fs, ps) == {FacesOf(fs, p) : p \in DOMAIN ps}

\* C24: two runs of cluster_faces over the same Faces with the same eps and
\* min_samples leave the same partition of the Faces into groups and noise,
\* whatever order the rows came in.
C24_SamePartition ==
    [][(/\ last.op = "cluster" /\ last.ran
        /\ last'.op = "cluster" /\ last'.ran
        /\ last'.minS = last.minS) =>
         Partition(faces', persons') = Partition(faces, persons)]_vars

\* C25: after a run of cluster_faces every Person it created holds at least
\* min_samples Faces, also when a Face lies within eps of core points of two
\* dense groups.
C25_MinimumGroupSize ==
    (last.op = "cluster" /\ last.ran) =>
        \A p \in DOMAIN persons : Cardinality(FacesOf(faces, p)) >= last.minS

\* the positions of the centroids most similar to the Face of step st
TopCentroids(st) ==
    {k \in 1..Len(st.cents) :
        \A j \in 1..Len(st.cents) : ~SimGT(StepSim(st, j), StepSim(st, k))}

\* C26: when two or more centroids share the greatest similarity to an
\* unassigned Face, and that similarity is positive and strictly above the
\* threshold, the pass assigns the Face to the tied Person with the lowest
\* id, in whatever order the rows that built the centroids came.
C26_TieGoesToLowestId ==
    last.op = "pass" =>
      \A n \in 1..Len(last.steps) :
        LET st == last.steps[n]
            top == TopCentroids(st)
        IN  (/\ Cardinality(top) >= 2
             /\ \A k \in top : /\ SimGT(StepSim(st, k), Frac(last.thr))
                                /\ SimGT(StepSim(st, k), SimZero))
              => \E k \in top :
                   /\ faces[st.face].person = last.ord[k]
                   /\ \A j \in top : last.ord[k] <= last.ord[j]

\* C27: after any sequence of completed operations (insert, cluster_faces,
\* cluster_new_faces, the loop, label_person, delete_unconfirmed_people)
\* every Face with a person_id points to a Person row that exists.
C27_ReferentialIntegrity ==
    \A i \in 1..Len(faces) :
        faces[i].person # NULL => faces[i].person \in DOMAIN persons

\* delete_unconfirmed_people removed a Person that held Faces while a Face of
\* a confirmed Person stayed assigned
C27_Witness ==
    /\ last.op = "deleteUnconfirmed" /\ last.ran
    /\ last.faces_to_clear > 0
    /\ \E i \in 1..Len(faces) : faces[i].person # NULL

\* C28: a pass that overlaps a label merge or delete_unconfirmed_people
\* gives no Face the id of a Person row that is missing when the pass
\* commits.
C28_PassAssignsExistingPerson ==
    [][(last'.op = "pass") =>
         \A i \in 1..Len(faces) :
           (faces'[i].person # faces[i].person /\ faces'[i].person # NULL)
             => faces'[i].person \in DOMAIN persons']_vars

\* C29: after a label_person that found its Person, in the rename branch
\* and in the merge branch, the Person row that holds the name is confirmed
\* (so that delete_unconfirmed_people leaves the labelled Faces assigned).
C29_ConfirmedAfterLabel ==
    [][(last'.op = "label" /\ last'.branch # "notfound") =>
         LET holder == IF last'.branch = "merge" THEN last'.q ELSE last'.p
         IN  /\ holder \in DOMAIN persons'
             /\ persons'[holder].name = last'.name
             /\ persons'[holder].confirmed]_vars

\* the number of Faces with an embedding and no person_id
Unassigned(fs) == Len(NewFaces(fs))

\* C30: a pass of the loop that is not its last one strictly decreases the
\* number of unassigned Faces; and a loop called with U unassigned Faces and
\* max_iterations >= U + 1, with no Face inserted meanwhile, makes at most
\* U + 1 passes and does not end on a pass that made progress.
C30_ProgressBound ==
    /\ [][(last'.op = "pass" /\ last'.inLoop /\ loop'.pc = "running") =>
            Unassigned(faces') < Unassigned(faces)]_vars
    /\ [](( /\ loop.pc # "idle" /\ ~loop.inserted
            /\ Len(workers) = 1 /\ loop.maxIter >= workers[1].U + 1) =>
             /\ loop.iteration <= workers[1].U + 1
             /\ loop.pc = "returned" => ~loop.progress)

\* a loop called with two unassigned Faces assigned one in each of two
\* passes and ended in its third
C30_Witness ==
    /\ LoopFinished /\ ~loop.inserted
    /\ Len(workers) = 1 /\ workers[1].U = 2
    /\ loop.maxIter >= 3
    /\ loop.iteration = 3
    /\ Unassigned(faces) = 0
====
